---- MODULE Spec2Model ----
(***************************************************************************)
(* Model of the pricing endpoint of menu-pricing-system-v2:                *)
(*   app.py            suggest_pricing (POST /api/pricing/suggest)          *)
(*   pricing_engine.py AIMLPricingEngine: calculate_price, the validator,   *)
(*                     the repair requester, the emergency fallback and     *)
(*                     _store_data                                          *)
(*   config.py         the default thresholds                               *)
(*                                                                         *)
(* Units.  Prices (current_price and the price a model answer carries) are  *)
(* integers counting tenths, so 2500 is 250.0; a recommended_price of a     *)
(* PricingResult is a Python int and is kept in whole units.  Weights are   *)
(* integers counting hundredths, so 60 is 0.6.  Multipliers are integers    *)
(* counting hundredths, so 130 is 1.3.  Competitor prices and the           *)
(* statistics over them count tenths; the mean is rounded to the nearest    *)
(* tenth and the standard deviation is truncated to a tenth.                *)
(*                                                                         *)
(* A behaviour is the handling of one request: requests share no state but  *)
(* the tables, which the code only appends to and never reads, and the      *)
(* tables start either empty or with rows stored for earlier requests.      *)
(* The remote model is the environment: every remote call is answered by a  *)
(* nondeterministic choice over ModelAnswers.  One action is one stretch of *)
(* the handler between two points where it waits for the remote model.      *)
(* StatsSpec applies the statistics helper alone to a list of prices.       *)
(***************************************************************************)
EXTENDS Integers, Sequences, FiniteSets, TLC

\* ------------------------------------------------------------------------
\* Bounds of the model
\* ------------------------------------------------------------------------
MaxEvents == 1        \* events carried by one request
MaxRepairDepth == 2   \* nested repair calls before Python's recursion limit
MaxCompetitors == 3   \* prices in a list handed to the statistics helper alone

\* ------------------------------------------------------------------------
\* Configuration (config.py defaults)
\* ------------------------------------------------------------------------
PRICE_INCREASE_MAX == 130
PRICE_DECREASE_MAX == 70
CONSERVATIVE_PRICE_ADJUSTMENT == 105
DEFAULT_INTERNAL_WEIGHT == 60
DEFAULT_EXTERNAL_WEIGHT == 40
DEFAULT_LOCATION == "default"

\* The attributes __init__ copies from Config.
DefaultConfig ==
    [price_increase_max |-> PRICE_INCREASE_MAX,
     price_decrease_max |-> PRICE_DECREASE_MAX,
     conservative_adjustment |-> CONSERVATIVE_PRICE_ADJUSTMENT,
     default_internal_weight |-> DEFAULT_INTERNAL_WEIGHT,
     default_external_weight |-> DEFAULT_EXTERNAL_WEIGHT]

\* A deployment that sets PRICE_INCREASE_MAX=1.0 in its environment (prices
\* may fall but never rise) and leaves every other setting at its default.
NoIncreaseConfig == [DefaultConfig EXCEPT !.price_increase_max = 100]

Configs == {DefaultConfig, NoIncreaseConfig}

\* ------------------------------------------------------------------------
\* State
\* ------------------------------------------------------------------------
VARIABLES
    cfg,     \* the engine's thresholds, read from Config at construction
    pc,      \* "start", the remote call the handler waits for, or "done"
    req,     \* the request being handled
    calls,   \* remote calls issued for req, per kind
    broken,  \* broken_response of the repair call in flight
    db,      \* the three tables
    http,    \* the HTTP response
    h        \* record of how req was handled

vars == <<cfg, pc, req, calls, broken, db, http, h>>

\* ------------------------------------------------------------------------
\* JSON values as Python sees them
\* ------------------------------------------------------------------------
\* A value found under a key of a JSON object.  k is its Python type:
\*   "absent" key missing         "null"  None
\*   "num"    int or float        "istr"  str holding an integer literal
\*   "dstr"   str holding a decimal literal with a point
\*   "bad"    str that is no number
Absent == [k |-> "absent", v |-> 0]
Null == [k |-> "null", v |-> 0]
Bad == [k |-> "bad", v |-> 0]
Num(x) == [k |-> "num", v |-> x]
IStr(x) == [k |-> "istr", v |-> x]
DStr(x) == [k |-> "dstr", v |-> x]

\* Optional values: <<>> is None or a missing key, <<x>> is x.
None == <<>>
Some(x) == <<x>>

\* int() of a non-negative or negative quantity n/d: truncation toward zero.
Trunc(n, d) == IF n >= 0 THEN n \div d ELSE -((-n) \div d)

\* Products current_price * multiplier whose IEEE double lies just below the
\* exact integer product, so that int() yields one less than the exact floor
\* (90 * 0.7 = 62.99999999999999).  Pairs <<current_price, multiplier>>.
RoundsBelow == {<<900, 70>>}

\* int(current_price * multiplier) for current_price >= 0, as doubles.
PyIntMul(cp, m) ==
    IF <<cp, m>> \in RoundsBelow THEN ((cp * m) \div 1000) - 1
    ELSE (cp * m) \div 1000

\* float(x): raises (ok = FALSE) on None and on a non-numeric string.
PyFloat(x) == [ok |-> x.k \in {"num", "istr", "dstr"}, v |-> x.v]

\* int(x) applied to a JSON value holding a price: a number is truncated, a
\* string must be an integer literal, anything else raises.
PyInt(x) ==
    IF x.k = "num" THEN [ok |-> TRUE, v |-> Trunc(x.v, 10)]
    ELSE IF x.k = "istr" THEN [ok |-> TRUE, v |-> x.v \div 10]
    ELSE [ok |-> FALSE, v |-> 0]

\* round(n / d, 2) in hundredths for d > 0: round half to even.
Round2(n, d) ==
    LET q == (100 * n) \div d
        r == (100 * n) % d
    IN  IF 2 * r < d THEN q
        ELSE IF 2 * r > d THEN q + 1
        ELSE IF q % 2 = 0 THEN q ELSE q + 1

\* ------------------------------------------------------------------------
\* Requests
\* ------------------------------------------------------------------------
CurrentPrices == {2500, 900, 995}
SunnyWeather == [temperature |-> 32, condition |-> "Sunny"]
FoodFestival == [name |-> "Food Festival", popularity |-> "High", distance_km |-> 25]

EventLists == UNION {[1..n -> {FoodFestival}] : n \in 0..MaxEvents}

\* competitor_prices of a request: missing or empty, or the documented list.
BodyCompetitorLists == {<<>>, <<2400, 2600, 2450>>}

\* The lists StatsSpec hands to the statistics helper.
CompetitorPrices == {1000, 2000, 2400, 2450, 2600}
PriceLists == UNION {[1..n -> CompetitorPrices] : n \in 0..MaxCompetitors}

\* The JSON object of a request body.  keys holds which of the two required
\* keys are present; weather is None when the key is missing (the handler
\* then substitutes {}), events defaults to the empty list.
RequestBodies ==
    [keys : SUBSET {"menu_item_id", "current_price"},
     menu_item_id : {0, 123},
     current_price : {0} \cup CurrentPrices,
     competitor_prices : BodyCompetitorLists,
     weather : {None, Some(SunnyWeather)},
     events : EventLists]

\* Mutation of Falsy: only menu_item_id is checked.
Falsy_OnlyMenuItemId(body, key) ==
    key = "menu_item_id" /\ (key \notin body.keys \/ body[key] = 0)

\* data.get(key) followed by `not value`: missing, None or zero.
Falsy(body, key) == key \notin body.keys \/ body[key] = 0

\* ------------------------------------------------------------------------
\* Statistics helper (_calculate_statistics)
\* ------------------------------------------------------------------------
RECURSIVE SumSeq(_)
SumSeq(prices) ==
    IF prices = <<>> THEN 0 ELSE Head(prices) + SumSeq(Tail(prices))

RECURSIVE SumSquares(_)
SumSquares(prices) ==
    IF prices = <<>> THEN 0
    ELSE Head(prices) * Head(prices) + SumSquares(Tail(prices))

\* min(prices) and max(prices) of a non-empty list.
MinSeq(prices) ==
    CHOOSE x \in {prices[n] : n \in 1..Len(prices)} :
        \A n \in 1..Len(prices) : x <= prices[n]

MaxSeq(prices) ==
    CHOOSE x \in {prices[n] : n \in 1..Len(prices)} :
        \A n \in 1..Len(prices) : x >= prices[n]

\* The largest s in lo..hi with s * s <= v, for lo * lo <= v.
RECURSIVE ISqrtIn(_, _, _)
ISqrtIn(lo, hi, v) ==
    IF lo = hi THEN lo
    ELSE LET mid == (lo + hi + 1) \div 2
         IN  IF mid * mid <= v THEN ISqrtIn(mid, hi, v)
             ELSE ISqrtIn(lo, mid - 1, v)

\* statistics.mean: the exact sum over the count, to the nearest tenth.
Mean(prices) == (2 * SumSeq(prices) + Len(prices)) \div (2 * Len(prices))

\* Mutation of Stdev: the population (n denominator) standard deviation.
Stdev_Population(prices) ==
    LET n == Len(prices)
        d == n * SumSquares(prices) - SumSeq(prices) * SumSeq(prices)
    IN  ISqrtIn(0, MaxSeq(prices), d \div (n * n))

\* statistics.stdev of two or more prices: the square root of the exact
\* sample variance (n * sum of squares - square of sum) / (n * (n - 1)).
Stdev(prices) ==
    LET n == Len(prices)
        d == n * SumSquares(prices) - SumSeq(prices) * SumSeq(prices)
    IN  ISqrtIn(0, MaxSeq(prices), d \div (n * (n - 1)))

\* The mapping _calculate_statistics returns: None is the empty mapping.
CalculateStatistics(prices) ==
    IF prices = <<>> THEN None
    ELSE Some([mean |-> Mean(prices),
               min |-> MinSeq(prices),
               max |-> MaxSeq(prices),
               std_dev |-> IF Len(prices) > 1 THEN Stdev(prices) ELSE 0])

\* ------------------------------------------------------------------------
\* Answers of the remote model
\* ------------------------------------------------------------------------
AI_REASONING == "Higher demand expected due to nearby food event."

Answer(iw, ew, rp, rs) ==
    [ok |-> TRUE, obj |-> TRUE, internal_weight |-> iw, external_weight |-> ew,
     recommended_price |-> rp, reasoning |-> rs]

\* The call raised: transport or authentication failure, or json.loads
\* failed on the body.
CallFailed ==
    [ok |-> FALSE, obj |-> FALSE, internal_weight |-> Absent,
     external_weight |-> Absent, recommended_price |-> Absent, reasoning |-> None]

\* The body parsed, but to something that is no JSON object (a list).
NotAnObject ==
    [ok |-> TRUE, obj |-> FALSE, internal_weight |-> Absent,
     external_weight |-> Absent, recommended_price |-> Absent, reasoning |-> None]

ModelAnswers ==
    { CallFailed,
      NotAnObject,
      Answer(Num(40), Num(60), Num(2680), Some(AI_REASONING)),
      Answer(Num(75), Num(25), Num(1000), None),
      Answer(Num(0), Num(100), Num(940), Some(AI_REASONING)),
      Answer(Num(30), Num(30), Num(9990), Some(AI_REASONING)),
      Answer(Num(90), Num(90), Num(1000), Some(AI_REASONING)),
      Answer(Num(200), Num(100), Num(2000), Some(AI_REASONING)),
      Answer(Num(-100), Num(200), Num(2689), Some(AI_REASONING)),
      Answer(Num(0), Num(0), IStr(2680), None),
      Answer(Num(1), Num(7), Num(-35), Some(AI_REASONING)),
      Answer(Absent, Absent, Absent, None),
      Answer(Absent, Absent, DStr(2685), Some(AI_REASONING)),
      Answer(Num(40), Num(60), Bad, Some(AI_REASONING)),
      Answer(Null, Num(60), Num(2680), Some(AI_REASONING)),
      Answer(Bad, Absent, Num(2680), None) }

\* ------------------------------------------------------------------------
\* Price band
\* ------------------------------------------------------------------------
Min(a, b) == IF a <= b THEN a ELSE b
Max(a, b) == IF a >= b THEN a ELSE b

MinPrice(cp) == PyIntMul(cp, cfg.price_decrease_max)
MaxPrice(cp) == PyIntMul(cp, cfg.price_increase_max)
ConservativePrice(cp) == PyIntMul(cp, cfg.conservative_adjustment)

\* Mutation of Clamp: min and max exchanged.
Clamp_Swapped(cp, rp) == Min(MinPrice(cp), Max(MaxPrice(cp), rp))

\* max(min_price, min(max_price, recommended_price))
Clamp(cp, rp) == Max(MinPrice(cp), Min(MaxPrice(cp), rp))

\* ------------------------------------------------------------------------
\* Response validator (_validate_ai_response)
\* ------------------------------------------------------------------------
GENERIC_REASONING == "Price optimized based on AI analysis"

\* float(ai_response.get(key, default)): the default is a float already.
GetFloat(x, default) ==
    IF x.k = "absent" THEN [ok |-> TRUE, v |-> default] ELSE PyFloat(x)

\* The try block raises: .get on a non-object, or a coercion fails.
ValidateRaises(a, cp) ==
    \/ ~a.obj
    \/ ~GetFloat(a.internal_weight, cfg.default_internal_weight).ok
    \/ ~GetFloat(a.external_weight, cfg.default_external_weight).ok
    \/ ~GetFloat(a.recommended_price, cp).ok

\* Mutation of NormaliseWeights: the external weight is left as the model
\* gave it.
NormaliseWeights_ExternalRaw(i, e) ==
    IF i + e > 0 THEN <<Round2(i, i + e), e>>
    ELSE <<cfg.default_internal_weight, cfg.default_external_weight>>

\* Lines 228-234: the pair <<internal_weight, external_weight>>.
NormaliseWeights(i, e) ==
    IF i + e > 0
    THEN LET iw == Round2(i, i + e)
         IN  <<iw, Round2(100 - iw, 100)>>
    ELSE <<cfg.default_internal_weight, cfg.default_external_weight>>

\* The record the try block returns when nothing raises.
ValidatedResult(a, cp) ==
    LET i == GetFloat(a.internal_weight, cfg.default_internal_weight).v
        e == GetFloat(a.external_weight, cfg.default_external_weight).v
        rp == Trunc(GetFloat(a.recommended_price, cp).v, 10)
        w == NormaliseWeights(i, e)
    IN  [recommended_price |-> Clamp(cp, rp),
         internal_weight |-> Num(w[1]),
         external_weight |-> Num(w[2]),
         reasoning |-> IF a.reasoning = None THEN Some(GENERIC_REASONING)
                       ELSE a.reasoning]

\* ------------------------------------------------------------------------
\* Repair requester (_ask_ai_to_fix_response), its except branch
\* ------------------------------------------------------------------------
REPAIR_REASONING == "Standard pricing applied due to processing error."

StaticRepairResult(cp) ==
    [recommended_price |-> ConservativePrice(cp),
     internal_weight |-> Num(cfg.default_internal_weight),
     external_weight |-> Num(cfg.default_external_weight),
     reasoning |-> Some(REPAIR_REASONING)]

\* ------------------------------------------------------------------------
\* Emergency fallback (_emergency_fallback)
\* ------------------------------------------------------------------------
EMERGENCY_REASONING == "Conservative price increase applied."

\* int(result.get('recommended_price', current_price * conservative))
EmergencyPrice(a, cp) ==
    IF a.recommended_price.k = "absent"
    THEN [ok |-> TRUE, v |-> ConservativePrice(cp)]
    ELSE PyInt(a.recommended_price)

\* Mutation of EmergencyRaises: only a failure of the call itself is caught.
EmergencyRaises_CallOnly(a, cp) == ~a.ok

\* The try block raises: the call, json.loads, .get or int() failed.
EmergencyRaises(a, cp) == ~a.ok \/ ~a.obj \/ ~EmergencyPrice(a, cp).ok

StaticEmergencyResult(cp) ==
    [recommended_price |-> ConservativePrice(cp),
     internal_weight |-> Num(cfg.default_internal_weight),
     external_weight |-> Num(cfg.default_external_weight),
     reasoning |-> Some(EMERGENCY_REASONING)]

\* Lines 331-338: the model's own object with only the price overwritten.
EmergencyAnswerResult(a, cp) ==
    [recommended_price |-> Clamp(cp, EmergencyPrice(a, cp).v),
     internal_weight |-> a.internal_weight,
     external_weight |-> a.external_weight,
     reasoning |-> a.reasoning]

EmergencyFallback(a, cp) ==
    IF EmergencyRaises(a, cp) THEN StaticEmergencyResult(cp)
    ELSE EmergencyAnswerResult(a, cp)

\* ------------------------------------------------------------------------
\* Persistence sink (_store_data) and the tables of models.py
\* ------------------------------------------------------------------------
EmptyDb == [weather_data |-> <<>>, events_data |-> <<>>, pricing_suggestions |-> <<>>]

\* Where _store_data raises, if it does: at a statement after the weather
\* row was added and before the commit ("add"), or at the commit.
StoreFailures == {"none", "add", "commit"}

WeatherRecord(weather) ==
    [temperature |-> IF weather # None THEN Some(weather[1].temperature) ELSE None,
     condition |-> IF weather # None THEN Some(weather[1].condition) ELSE None,
     location |-> DEFAULT_LOCATION]

EventRecord(event) ==
    [name |-> event.name, popularity |-> event.popularity,
     distance_km |-> event.distance_km]

SuggestionRecord(menu_item_id, res) ==
    [menu_item_id |-> menu_item_id,
     recommended_price |-> res.recommended_price,
     internal_weight |-> res.internal_weight,
     external_weight |-> res.external_weight,
     reasoning |-> res.reasoning]

\* The rows db.session.add has put into the session when _store_data raises
\* at fail (all of them when nothing or only the commit fails).
SessionRows(r, res, fail) ==
    [weather_data |-> <<WeatherRecord(r.weather)>>,
     events_data |->
        IF fail = "add" THEN <<>>
        ELSE [n \in 1..Len(r.events) |-> EventRecord(r.events[n])],
     pricing_suggestions |->
        IF fail = "add" THEN <<>>
        ELSE <<SuggestionRecord(r.menu_item_id, res)>>]

\* db.session.commit(): the session's rows reach the tables together.
Commit(d, rows) ==
    [weather_data |-> d.weather_data \o rows.weather_data,
     events_data |-> d.events_data \o rows.events_data,
     pricing_suggestions |-> d.pricing_suggestions \o rows.pricing_suggestions]

\* db.session.rollback(): the session's rows are dropped.
Rollback(d, rows) == d

\* _store_data: the tables after the call.
StoreData(d, r, res, fail) ==
    IF fail = "none" THEN Commit(d, SessionRows(r, res, fail))
    ELSE Rollback(d, SessionRows(r, res, fail))

\* Mutation of StoreDataRaises: the except branch is missing.
StoreDataRaises_Uncaught(fail) == fail # "none"

\* _store_data lets an exception escape to calculate_price: never, its
\* except branch catches every Exception.
StoreDataRaises(fail) == FALSE

\* ------------------------------------------------------------------------
\* HTTP handler (suggest_pricing), after calculate_price returned
\* ------------------------------------------------------------------------
NoResult ==
    [recommended_price |-> 0, internal_weight |-> Absent,
     external_weight |-> Absent, reasoning |-> None]

ErrorResponse(status) ==
    [status |-> status, menu_item_id |-> 0, recommended_price |-> 0,
     internal_weight |-> Absent, external_weight |-> Absent, reasoning |-> None]

\* result['internal_weight'], result['external_weight'] or
\* result['reasoning'] raises KeyError.
ResponseRaises(res) ==
    \/ res.internal_weight.k = "absent"
    \/ res.external_weight.k = "absent"
    \/ res.reasoning = None

FormatResponse(menu_item_id, res) ==
    IF ResponseRaises(res) THEN ErrorResponse(500)
    ELSE [status |-> 200, menu_item_id |-> menu_item_id,
          recommended_price |-> res.recommended_price,
          internal_weight |-> res.internal_weight,
          external_weight |-> res.external_weight,
          reasoning |-> res.reasoning]

\* ------------------------------------------------------------------------
\* Initial state
\* ------------------------------------------------------------------------
NoRequest ==
    [menu_item_id |-> 0, current_price |-> 0, competitor_prices |-> <<>>,
     weather |-> None, events |-> <<>>]
NoCalls == [primary |-> 0, repair |-> 0, emergency |-> 0]

\* body: the request body; path: the code path that produced result;
\* stores: calls of _store_data; fail: where _store_data raised; dbBefore:
\* the tables when the request arrived; primary: the primary answer;
\* repair1: how the first repair attempt ended; last: the answer to the
\* latest remote call; stats: the mapping the statistics helper returned.
NoHistory ==
    [body |-> None, path |-> "none", result |-> NoResult, stores |-> 0,
     fail |-> "none", dbBefore |-> EmptyDb, primary |-> None,
     repair1 |-> "none", last |-> None, stats |-> None]

\* Tables that hold the rows an earlier run of the service stored.
ExistingDb ==
    [weather_data |-> <<WeatherRecord(None)>>,
     events_data |-> <<>>,
     pricing_suggestions |->
        <<SuggestionRecord(7, [recommended_price |-> 105,
                               internal_weight |-> Num(60),
                               external_weight |-> Num(40),
                               reasoning |-> Some(REPAIR_REASONING)])>>]

Init ==
    /\ cfg \in Configs
    /\ pc = "start"
    /\ req = NoRequest
    /\ calls = NoCalls
    /\ broken = CallFailed
    /\ db \in {EmptyDb, ExistingDb}
    /\ http = ErrorResponse(0)
    /\ h = NoHistory

\* ------------------------------------------------------------------------
\* suggest_pricing, up to the primary remote call
\* ------------------------------------------------------------------------
\* Lines 31-34 of app.py: a required field is missing, None or zero.
RejectRequest(body) ==
    /\ pc = "start"
    /\ Falsy(body, "menu_item_id") \/ Falsy(body, "current_price")
    /\ http' = ErrorResponse(400)
    /\ pc' = "done"
    /\ req' = NoRequest
    /\ calls' = NoCalls
    /\ h' = [NoHistory EXCEPT !.body = Some(body), !.path = "rejected",
                               !.dbBefore = db]
    /\ UNCHANGED <<cfg, broken, db>>

\* Lines 36-48 of app.py, calculate_price and _get_complete_ai_recommendation
\* up to chat.completions.create: the primary call is issued.
AcceptRequest(body) ==
    /\ pc = "start"
    /\ ~(Falsy(body, "menu_item_id") \/ Falsy(body, "current_price"))
    /\ req' = [menu_item_id |-> body.menu_item_id,
               current_price |-> body.current_price,
               competitor_prices |-> body.competitor_prices,
               weather |-> body.weather,
               events |-> body.events]
    /\ calls' = [NoCalls EXCEPT !.primary = 1]
    /\ pc' = "primary"
    /\ http' = ErrorResponse(0)
    /\ h' = [NoHistory EXCEPT
                !.body = Some(body), !.dbBefore = db,
                !.stats = IF body.competitor_prices # <<>>
                          THEN CalculateStatistics(body.competitor_prices)
                          ELSE None]
    /\ UNCHANGED <<cfg, broken, db>>

\* ------------------------------------------------------------------------
\* calculate_price once the pipeline returned res, and the handler's reply
\* ------------------------------------------------------------------------
\* Lines 54-68 of pricing_engine.py and 50-63 of app.py.  hb is the record
\* of the handling so far.
ReturnResult(hb, res, path, fail) ==
    /\ db' = StoreData(db, req, res, fail)
    /\ broken' = CallFailed
    /\ IF StoreDataRaises(fail)
       THEN /\ pc' = "emergency"
            /\ calls' = [calls EXCEPT !.emergency = @ + 1]
            /\ h' = [hb EXCEPT !.stores = @ + 1, !.fail = fail]
            /\ UNCHANGED http
       ELSE /\ pc' = "done"
            /\ http' = FormatResponse(req.menu_item_id, res)
            /\ h' = [hb EXCEPT !.path = path, !.result = res, !.stores = @ + 1,
                               !.fail = fail]
            /\ UNCHANGED calls
    /\ UNCHANGED <<cfg, req>>

\* Mutation of IssueRepair: the validator has no except branch, the error
\* escapes to calculate_price, which calls the emergency fallback.
IssueRepair_Uncaught(hb, a) ==
    /\ pc' = "emergency"
    /\ calls' = [calls EXCEPT !.emergency = @ + 1]
    /\ h' = hb
    /\ UNCHANGED <<cfg, req, broken, db, http>>

\* The validator's except branch calls the repair requester, which issues
\* its remote call (lines 248-251 and 257-289).
IssueRepair(hb, a) ==
    /\ pc' = "repair"
    /\ broken' = a
    /\ calls' = [calls EXCEPT !.repair = @ + 1]
    /\ h' = hb
    /\ UNCHANGED <<cfg, req, db, http>>

\* The record once a repair call returned a: the outcome of the first
\* repair attempt is recorded once.
Repaired(outcome, a) ==
    [h EXCEPT !.repair1 = IF calls.repair = 1 THEN outcome ELSE @,
              !.last = Some(a)]

\* ------------------------------------------------------------------------
\* The primary call returns
\* ------------------------------------------------------------------------
\* The call or json.loads raised: re-raised at line 214, caught at line 66,
\* and the emergency fallback issues its call.
PrimaryFails ==
    /\ pc = "primary"
    /\ pc' = "emergency"
    /\ calls' = [calls EXCEPT !.emergency = @ + 1]
    /\ h' = [h EXCEPT !.primary = Some(CallFailed), !.last = Some(CallFailed)]
    /\ UNCHANGED <<cfg, req, broken, db, http>>

PrimaryValid(a, fail) ==
    /\ pc = "primary"
    /\ a.ok
    /\ ~ValidateRaises(a, req.current_price)
    /\ ReturnResult([h EXCEPT !.primary = Some(a), !.last = Some(a)],
                    ValidatedResult(a, req.current_price), "validator", fail)

PrimaryMalformed(a) ==
    /\ pc = "primary"
    /\ a.ok
    /\ ValidateRaises(a, req.current_price)
    /\ IssueRepair([h EXCEPT !.primary = Some(a), !.last = Some(a)], a)

\* ------------------------------------------------------------------------
\* A repair call returns
\* ------------------------------------------------------------------------
\* The call or json.loads raised: the except branch at line 294 returns the
\* static result, which every enclosing validator call passes on.
RepairFails(fail) ==
    /\ pc = "repair"
    /\ ReturnResult(Repaired("call_failed", CallFailed),
                    StaticRepairResult(req.current_price), "repair_static", fail)

\* Line 292: the re-validation accepts the repaired answer.
RepairValid(a, fail) ==
    /\ pc = "repair"
    /\ a.ok
    /\ ~ValidateRaises(a, req.current_price)
    /\ ReturnResult(Repaired("valid", a),
                    ValidatedResult(a, req.current_price), "repair", fail)

\* Line 292: the re-validation raises inside _validate_ai_response, whose
\* except branch (line 251) calls the repair requester again, now with the
\* repaired answer as broken_response.
RepairMalformed(a) ==
    /\ pc = "repair"
    /\ a.ok
    /\ ValidateRaises(a, req.current_price)
    /\ calls.repair < MaxRepairDepth
    /\ IssueRepair(Repaired("invalid", a), a)

\* As RepairMalformed, but the nesting has reached the interpreter's
\* recursion limit: the nested call raises RecursionError, an Exception,
\* which the except branch at line 294 turns into the static result.
RepairRecursionLimit(a, fail) ==
    /\ pc = "repair"
    /\ a.ok
    /\ ValidateRaises(a, req.current_price)
    /\ calls.repair = MaxRepairDepth
    /\ ReturnResult(Repaired("invalid", a),
                    StaticRepairResult(req.current_price), "repair_static", fail)

\* ------------------------------------------------------------------------
\* The emergency call returns
\* ------------------------------------------------------------------------
\* _emergency_fallback from line 331 on, then lines 50-67 of app.py.  The
\* result is not handed to _store_data.
EmergencyReturns(a) ==
    /\ pc = "emergency"
    /\ LET res == EmergencyFallback(a, req.current_price)
       IN  /\ http' = FormatResponse(req.menu_item_id, res)
           /\ h' = [h EXCEPT !.result = res, !.last = Some(a),
                             !.path = IF EmergencyRaises(a, req.current_price)
                                      THEN "emergency_static"
                                      ELSE "emergency_ai"]
    /\ pc' = "done"
    /\ UNCHANGED <<cfg, req, calls, broken, db>>

\* ------------------------------------------------------------------------
\* Specification
\* ------------------------------------------------------------------------
Next ==
    \/ \E body \in RequestBodies : RejectRequest(body)
    \/ \E body \in RequestBodies : AcceptRequest(body)
    \/ PrimaryFails
    \/ \E a \in ModelAnswers, fail \in StoreFailures : PrimaryValid(a, fail)
    \/ \E a \in ModelAnswers : PrimaryMalformed(a)
    \/ \E fail \in StoreFailures : RepairFails(fail)
    \/ \E a \in ModelAnswers, fail \in StoreFailures : RepairValid(a, fail)
    \/ \E a \in ModelAnswers : RepairMalformed(a)
    \/ \E a \in ModelAnswers, fail \in StoreFailures : RepairRecursionLimit(a, fail)
    \/ \E a \in ModelAnswers : EmergencyReturns(a)

Spec == Init /\ [][Next]_vars

\* ------------------------------------------------------------------------
\* The statistics helper alone
\* ------------------------------------------------------------------------
\* The helper is about to be called with req.competitor_prices.
StatsInit ==
    /\ cfg = DefaultConfig
    /\ pc = "stats"
    /\ req \in {[NoRequest EXCEPT !.competitor_prices = prices] :
                   prices \in PriceLists}
    /\ calls = NoCalls
    /\ broken = CallFailed
    /\ db = EmptyDb
    /\ http = ErrorResponse(0)
    /\ h = NoHistory

\* _calculate_statistics(prices) returns.
CalculateStatisticsReturns ==
    /\ pc = "stats"
    /\ pc' = "stats_done"
    /\ h' = [h EXCEPT !.stats = CalculateStatistics(req.competitor_prices)]
    /\ UNCHANGED <<cfg, req, calls, broken, db, http>>

StatsNext == CalculateStatisticsReturns

StatsSpec == StatsInit /\ [][StatsNext]_vars

\* ------------------------------------------------------------------------
\* Properties
\* ------------------------------------------------------------------------
ResultPaths == {"validator", "repair", "repair_static", "emergency_ai", "emergency_static"}

\* The request was answered and calculate_price returned a PricingResult.
HasResult == pc = "done" /\ h.path \in ResultPaths

\* C1: every PricingResult of a request with a positive current_price,
\* whichever path produced it, has min_price <= recommended_price <=
\* max_price, the band being int(current_price * price_decrease_max) and
\* int(current_price * price_increase_max) under the configured multipliers.
C1_PriceWithinBand ==
    HasResult =>
        /\ MinPrice(req.current_price) <= h.result.recommended_price
        /\ h.result.recommended_price <= MaxPrice(req.current_price)

\* C2: every response with status 200 carries two numeric weights whose sum
\* is 1.0, whichever path produced the result.
C2_WeightsSumToOne ==
    (pc = "done" /\ http.status = 200) =>
        /\ http.internal_weight.k = "num"
        /\ http.external_weight.k = "num"
        /\ http.internal_weight.v + http.external_weight.v = 100

\* C3: while one request is handled, at most one repair call and at most one
\* emergency call are issued, so at most three remote calls in total.
C3_AtMostOneRepairOneEmergency ==
    /\ calls.repair <= 1
    /\ calls.emergency <= 1
    /\ calls.primary + calls.repair + calls.emergency <= 3

LacksRequired(body) ==
    "menu_item_id" \notin body.keys \/ "current_price" \notin body.keys

\* C4: a request whose body lacks menu_item_id or current_price is answered
\* with status 400, and no remote call is issued and no row is stored for it.
C4_MissingFieldRejected ==
    (h.body # None /\ LacksRequired(h.body[1])) =>
        /\ pc = "done"
        /\ http.status = 400
        /\ calls = NoCalls
        /\ db = h.dbBefore

C4_Witness ==
    /\ h.body # None
    /\ h.body[1].keys = {"menu_item_id"}
    /\ h.body[1].menu_item_id = 123
    /\ http.status = 400
    /\ db = ExistingDb

\* C5: when the primary remote call fails, the failure is routed to the
\* emergency fallback and the request is answered with status 200.
C5_PrimaryFailureAnswered200 ==
    (pc = "done" /\ h.primary = Some(CallFailed)) =>
        /\ calls.emergency = 1
        /\ http.status = 200

\* What the pipeline computed from the last answer, before persistence.
PipelineResult ==
    IF h.last[1].ok /\ ~ValidateRaises(h.last[1], req.current_price)
    THEN ValidatedResult(h.last[1], req.current_price)
    ELSE StaticRepairResult(req.current_price)

\* C6: when a write or the commit of _store_data fails, the tables are left
\* as they were, nothing is raised (no emergency call follows), and the
\* response is the one built from the result computed before persistence.
C6_WriteFailureKeepsResult ==
    h.fail # "none" =>
        /\ pc = "done"
        /\ calls.emergency = 0
        /\ db = h.dbBefore
        /\ h.result = PipelineResult
        /\ http = FormatResponse(req.menu_item_id, PipelineResult)
        /\ http.status = 200

C6_Witness ==
    /\ pc = "done"
    /\ h.fail = "commit"
    /\ h.path = "validator"
    /\ http.status = 200
    /\ http.recommended_price = 268
    /\ Len(req.events) = 1
    /\ db = ExistingDb

\* C7: every request that produced a PricingResult and whose writes did not
\* fail has added one weather row, one event row per event and one
\* suggestion row carrying the result, and changed no earlier row, whichever
\* path produced the result.
C7_RowsStoredForEveryResult ==
    (HasResult /\ h.fail = "none") =>
        db = Commit(h.dbBefore, SessionRows(req, h.result, "none"))

\* A primary answer with non-negative 2-decimal weights that sum to 1.0 and
\* an integer price inside the band.
WellFormed(a, cp) ==
    /\ a.ok /\ a.obj
    /\ a.internal_weight.k = "num" /\ a.internal_weight.v >= 0
    /\ a.external_weight.k = "num" /\ a.external_weight.v >= 0
    /\ a.internal_weight.v + a.external_weight.v = 100
    /\ a.recommended_price.k = "num"
    /\ a.recommended_price.v % 10 = 0
    /\ MinPrice(cp) <= a.recommended_price.v \div 10
    /\ a.recommended_price.v \div 10 <= MaxPrice(cp)

\* C8: a well-formed primary answer is returned as it is: the response has
\* its price and its weights, only the primary call was issued, and
\* _store_data was called once.
C8_WellFormedAnswerReturned ==
    (h.primary # None /\ WellFormed(h.primary[1], req.current_price)) =>
        /\ pc = "done"
        /\ http.status = 200
        /\ http.recommended_price = h.primary[1].recommended_price.v \div 10
        /\ http.internal_weight = h.primary[1].internal_weight
        /\ http.external_weight = h.primary[1].external_weight
        /\ calls = [primary |-> 1, repair |-> 0, emergency |-> 0]
        /\ h.stores = 1

C8_Witness ==
    /\ pc = "done"
    /\ cfg = DefaultConfig
    /\ req.current_price = 2500
    /\ h.primary = Some(Answer(Num(40), Num(60), Num(2680), Some(AI_REASONING)))
    /\ http.recommended_price = 268
    /\ http.internal_weight = Num(40)
    /\ http.external_weight = Num(60)
    /\ h.fail = "none"
    /\ Len(db.pricing_suggestions) = Len(h.dbBefore.pricing_suggestions) + 1

\* C9: when the primary answer is malformed and the first repair attempt
\* fails (its call fails, or its answer fails re-validation), the result is
\* the static repair result.
C9_FailedRepairGivesStatic ==
    (pc = "done" /\ h.repair1 \in {"call_failed", "invalid"}) =>
        h.result = StaticRepairResult(req.current_price)

\* C10: when the emergency call succeeds, the result has the model's price
\* clamped into the band and the configured default weights.
C10_EmergencyAnswerHasDefaultWeights ==
    (pc = "done" /\ h.path = "emergency_ai") =>
        /\ h.result.recommended_price =
              Clamp(req.current_price, EmergencyPrice(h.last[1], req.current_price).v)
        /\ h.result.internal_weight = Num(cfg.default_internal_weight)
        /\ h.result.external_weight = Num(cfg.default_external_weight)

\* The emergency call failed in one of the three ways: the transport or the
\* parse of the body failed, the body is no object, or its price does not
\* coerce to an integer.
EmergencyCallFailed(a) ==
    \/ ~a.ok
    \/ ~a.obj
    \/ a.recommended_price.k \in {"null", "bad", "dstr"}

\* C11: when the emergency call fails in any way, the emergency fallback
\* raises nothing (the request is answered 200 after one emergency call) and
\* returns floor(current_price * conservative_adjustment), the configured
\* default weights and the text "Conservative price increase applied."
C11_EmergencyFailureGivesStatic ==
    (pc = "done" /\ calls.emergency = 1 /\ EmergencyCallFailed(h.last[1])) =>
        /\ h.result.recommended_price =
              (req.current_price * cfg.conservative_adjustment) \div 1000
        /\ h.result.internal_weight = Num(cfg.default_internal_weight)
        /\ h.result.external_weight = Num(cfg.default_external_weight)
        /\ h.result.reasoning = Some("Conservative price increase applied.")
        /\ http.status = 200
        /\ http.recommended_price = h.result.recommended_price

C11_Witness ==
    /\ pc = "done"
    /\ cfg = DefaultConfig
    /\ req.current_price = 2500
    /\ h.primary = Some(CallFailed)
    /\ h.last = Some(Answer(Num(40), Num(60), Bad, Some(AI_REASONING)))
    /\ h.path = "emergency_static"
    /\ http.status = 200
    /\ http.recommended_price = 262

Abs(x) == IF x >= 0 THEN x ELSE -x

\* The validator returned the result: it accepted the latest answer.
ValidatorReturned == pc = "done" /\ h.path \in {"validator", "repair"}

\* Both raw weights of answer a are numbers.
NumericWeights(a) == a.internal_weight.k = "num" /\ a.external_weight.k = "num"

\* C12: for raw weights i and e the validator returns, if i + e > 0,
\* internal_weight = i / (i + e) rounded to the nearest hundredth and
\* external_weight = 1.0 - internal_weight, so 0.3 and 0.3 give 0.5 and 0.5;
\* if i + e <= 0 both weights are the configured defaults.
C12_WeightsNormalised ==
    (ValidatorReturned /\ NumericWeights(h.last[1])) =>
        LET i == h.last[1].internal_weight.v
            e == h.last[1].external_weight.v
            iw == h.result.internal_weight.v
            ew == h.result.external_weight.v
        IN  /\ h.result.internal_weight.k = "num"
            /\ h.result.external_weight.k = "num"
            /\ i + e > 0 =>
                  /\ 2 * Abs(100 * i - iw * (i + e)) <= i + e
                  /\ ew = 100 - iw
            /\ i + e <= 0 =>
                  /\ iw = cfg.default_internal_weight
                  /\ ew = cfg.default_external_weight
            /\ (i = 30 /\ e = 30) => (iw = 50 /\ ew = 50)

C12_Witness ==
    /\ ValidatorReturned
    /\ h.path = "validator"
    /\ h.last = Some(Answer(Num(30), Num(30), Num(9990), Some(AI_REASONING)))
    /\ h.result.internal_weight = Num(50)
    /\ h.result.external_weight = Num(50)
    /\ http.status = 200

\* The sum over the list of (n * price - sum of the list) squared, n being
\* the length of whole: n squared times the sum of squared deviations from
\* the mean.
RECURSIVE ScaledSquaredDeviations(_, _)
ScaledSquaredDeviations(prices, whole) ==
    IF prices = <<>> THEN 0
    ELSE LET dev == Len(whole) * Head(prices) - SumSeq(whole)
         IN  dev * dev + ScaledSquaredDeviations(Tail(prices), whole)

\* C13: the statistics helper returns the empty mapping for an empty list;
\* for a non-empty list it returns the mean, the minimum and the maximum of
\* the values and a std_dev that is 0.0 for one value and otherwise the
\* sample standard deviation (n - 1 denominator); [100] gives 100, 100, 100
\* and 0.0, [100, 200] gives mean 150, min 100 and max 200.
C13_StatisticsOfPrices ==
    pc = "stats_done" =>
        LET prices == req.competitor_prices
            n == Len(prices)
            values == {prices[k] : k \in 1..n}
        IN  /\ n = 0 => h.stats = None
            /\ n > 0 =>
                  /\ h.stats # None
                  /\ 2 * Abs(h.stats[1].mean * n - SumSeq(prices)) <= n
                  /\ h.stats[1].min \in values
                  /\ \A x \in values : h.stats[1].min <= x
                  /\ h.stats[1].max \in values
                  /\ \A x \in values : x <= h.stats[1].max
            /\ n = 1 => h.stats[1].std_dev = 0
            /\ n > 1 =>
                  LET s == h.stats[1].std_dev
                      q == ScaledSquaredDeviations(prices, prices)
                  IN  /\ s >= 0
                      /\ s * s * n * n * (n - 1) <= q
                      /\ q < (s + 1) * (s + 1) * n * n * (n - 1)
            /\ prices = <<1000>> =>
                  h.stats = Some([mean |-> 1000, min |-> 1000, max |-> 1000,
                                  std_dev |-> 0])
            /\ prices = <<1000, 2000>> =>
                  /\ h.stats[1].mean = 1500
                  /\ h.stats[1].min = 1000
                  /\ h.stats[1].max = 2000
                  /\ h.stats[1].std_dev = 707

C13_Witness ==
    /\ pc = "stats_done"
    /\ req.competitor_prices = <<2400, 2600, 2450>>
    /\ h.stats = Some([mean |-> 2483, min |-> 2400, max |-> 2600, std_dev |-> 104])

\* The weight the validator is said to take from value x: the number, or
\* the configured default when x is absent or is no number.
ClaimedWeight(x, default) ==
    IF x.k \in {"num", "istr", "dstr"} THEN x.v ELSE default

\* C14: from any input map whose recommended_price is absent or a number the
\* validator produces a PricingResult without issuing a remote call: a weight
\* that is absent or non-numeric is replaced by its configured default, an
\* absent recommended_price by current_price truncated to an integer, an
\* absent reasoning by the generic text; the empty map yields the default
\* weights and current_price clamped into the band.
C14_ValidatorDefaultsEveryField ==
    (/\ h.primary # None
     /\ h.primary[1].ok /\ h.primary[1].obj
     /\ h.primary[1].recommended_price.k \in {"absent", "num"}) =>
        LET a == h.primary[1]
            w == NormaliseWeights(
                    ClaimedWeight(a.internal_weight, cfg.default_internal_weight),
                    ClaimedWeight(a.external_weight, cfg.default_external_weight))
        IN  /\ calls.repair = 0
            /\ calls.emergency = 0
            /\ pc = "done" =>
                  /\ h.path = "validator"
                  /\ h.result.internal_weight = Num(w[1])
                  /\ h.result.external_weight = Num(w[2])
                  /\ a.recommended_price.k = "absent" =>
                        h.result.recommended_price =
                            Clamp(req.current_price, Trunc(req.current_price, 10))
                  /\ a.reasoning = None =>
                        h.result.reasoning = Some(GENERIC_REASONING)

\* A coercion step of the validator raises on object a: float() of a weight,
\* or float() of the price, is applied to None or to a non-numeric string.
CoercionFails(a) ==
    /\ a.obj
    /\ \/ a.internal_weight.k \in {"null", "bad"}
       \/ a.external_weight.k \in {"null", "bad"}
       \/ a.recommended_price.k \in {"null", "bad"}

\* C15: when a coercion step raises on the primary answer, the validator
\* raises nothing: it calls the repair requester with the primary answer as
\* it was received and the same current_price, the result of the request is
\* the repair requester's result, and no emergency call is issued.
C15_CoercionFailureRepaired ==
    (h.primary # None /\ h.primary[1].ok /\ CoercionFails(h.primary[1])) =>
        /\ calls.repair >= 1
        /\ calls.emergency = 0
        /\ pc \in {"repair", "done"}
        /\ (pc = "repair" /\ calls.repair = 1) => broken = h.primary[1]
        /\ pc = "done" =>
              /\ h.path \in {"repair", "repair_static"}
              /\ h.path = "repair" =>
                    h.result = ValidatedResult(h.last[1], req.current_price)
              /\ h.path = "repair_static" =>
                    h.result = StaticRepairResult(req.current_price)
              /\ http.status = 200
              /\ http.recommended_price = h.result.recommended_price

C15_Witness ==
    /\ pc = "done"
    /\ cfg = DefaultConfig
    /\ req.current_price = 2500
    /\ h.primary = Some(Answer(Num(40), Num(60), Bad, Some(AI_REASONING)))
    /\ h.last = Some(Answer(Num(40), Num(60), Num(2680), Some(AI_REASONING)))
    /\ h.path = "repair"
    /\ calls = [primary |-> 1, repair |-> 1, emergency |-> 0]
    /\ http.status = 200
    /\ http.recommended_price = 268

\* C16: every PricingResult the validator returns for numeric raw weights,
\* negative ones included, has 0 <= internal_weight <= 1 and
\* 0 <= external_weight <= 1, the default weights lying in [0, 1].
C16_WeightsWithinUnitInterval ==
    (ValidatorReturned /\ NumericWeights(h.last[1])) =>
        /\ h.result.internal_weight.k = "num"
        /\ h.result.external_weight.k = "num"
        /\ 0 <= h.result.internal_weight.v /\ h.result.internal_weight.v <= 100
        /\ 0 <= h.result.external_weight.v /\ h.result.external_weight.v <= 100

====
